---------------------------- MODULE Spec2Model ----------------------------
(***************************************************************************)
(* Model of agentic_injection_system_v2.py: the InjectionEngine           *)
(* (load_rules, process_project_request, get_system_status), its trigger  *)
(* evaluation and agent execution, and the MetaAgent scoring component.   *)
(***************************************************************************)
EXTENDS Integers, Sequences, FiniteSets, TLC

VARIABLES
    python_sum,          \* how the interpreter's built-in sum() adds floats
    triggers,            \* InjectionEngine.triggers, with the agents they own
    execution_history,   \* MetaAgent.execution_history
    optimization_rules,  \* MetaAgent.optimization_rules
    pc,                  \* position of the running process_project_request
    request,             \* its project_request
    results,             \* its local results dictionary
    trigger_index,       \* index of the trigger its outer loop is at
    agent_index,         \* index of the agent its inner loop is at
    agent_result,        \* value _execute_agent has just returned
    fired,               \* indices of the triggers activated in this call
    history_before,      \* length of the history when this call began
    report,              \* what the last process_project_request returned
    last_call,           \* the latest call on the engine and what it returned
    service,             \* what the latest step asked of the text service
    clock,               \* datetime.now(), counted in executions
    n_process,           \* number of process_project_request calls so far
    n_load               \* number of load_rules calls so far

metaVars == <<execution_history, optimization_rules>>
callVars == <<pc, request, results, trigger_index, agent_index, agent_result,
              fired, history_before>>
engineVars == <<triggers, callVars, report, last_call, service,
                clock, n_process, n_load>>
vars == <<python_sum, metaVars, engineVars>>

(***************************************************************************)
(* Python floats.  The scores of MetaAgent are IEEE-754 doubles.  A       *)
(* non-negative double below 16 is held exactly as a pair <<hi, lo>>      *)
(* standing for (hi * 2^30 + lo) * 2^-56; every value the scoring code    *)
(* produces (at least 2^-4, or zero) is a whole number of such units.     *)
(* Each arithmetic operation rounds to 53 significant bits, ties to even. *)
(***************************************************************************)
FBase == 2^30

FZero == <<0, 0>>

\* the integer n (0 <= n < 16) as a double
FInt(n) == <<n * 2^26, 0>>

FLess(a, b) == a[1] < b[1] \/ (a[1] = b[1] /\ a[2] < b[2])

\* the spacing of doubles around a value whose high limb is hi
RECURSIVE FUlp(_)
FUlp(hi) == IF hi < 2^23 THEN 1 ELSE 2 * FUlp(hi \div 2)

\* <<hi, lo>> plus one spacing u, with the carry into the high limb
FBump(hi, lo, u) == IF lo + u = FBase THEN <<hi + 1, 0>> ELSE <<hi, lo + u>>

\* round an exact sum to the nearest double, ties to even
FRound(hi, lo) ==
    LET u == FUlp(hi)
        r == lo % u
        down == lo - r
        up == \/ 2 * r > u
              \/ (2 * r = u /\ (lo \div u) % 2 = 1)
    IN  IF up THEN FBump(hi, down, u) ELSE <<hi, down>>

\* a + b on doubles
FAdd(a, b) ==
    LET s == a[2] + b[2]
    IN  FRound(a[1] + b[1] + (s \div FBase), s % FBase)

\* a / n on doubles, n a small positive integer: the exact quotient is
\* floored limb by limb, then rounded on the remainder
FDiv(a, n) ==
    LET qh == a[1] \div n
        rh == a[1] % n
        t == rh * (FBase % n) + a[2]
        ql == rh * (FBase \div n) + (t \div n)
        rl == t % n
        u == FUlp(qh)
        r == (ql % u) * n + rl
        down == ql - (ql % u)
        up == \/ 2 * r > u * n
              \/ (2 * r = u * n /\ (ql \div u) % 2 = 1)
    IN  IF up THEN FBump(qh, down, u) ELSE <<qh, down>>

\* min(a, b) on doubles
FMin(a, b) == IF FLess(b, a) THEN b ELSE a


(***************************************************************************)
(* Python dictionaries are records here; a key that is missing holds      *)
(* NoField.  quality_score is held in hundredths and the elapsed          *)
(* execution_time in tenths of a second.                                  *)
(***************************************************************************)
NoField == -1

\* the literals of _calculate_performance_score as doubles
SuccessWeight == FDiv(FInt(1), 2)
QualityWeight == FDiv(FInt(3), 10)
FastBonus == FDiv(FInt(2), 10)
MediumBonus == FDiv(FInt(1), 10)
ScoreCap == FInt(1)
FastLimit == 50
MediumLimit == 100

\* result['quality_score'] * 0.3: a product with a power of two scales
\* 0.3 exactly; 0.85 * 0.3 is the double 0x3FD051EB851EB852
QualityTimesWeight(q) ==
    CASE q = 50 -> FDiv(QualityWeight, 2)
      [] q = 100 -> QualityWeight
      [] q = 200 -> FAdd(QualityWeight, QualityWeight)
      [] q = 85 -> <<17112760, 343597384>>

\* dict.get(key) in a condition: a missing key, 0 and 0.0 are all falsy
Truthy(v) == v # NoField /\ v # 0

\* as calculate_performance_score, but returning score instead of
\* min(score, 1.0)
calculate_performance_score_unclamped(result) ==
    LET s1 == IF result.success = "true" THEN FAdd(FZero, SuccessWeight)
              ELSE FZero
        s2 == IF Truthy(result.quality_score)
              THEN FAdd(s1, QualityTimesWeight(result.quality_score))
              ELSE s1
        s3 == IF Truthy(result.execution_time)
              THEN IF result.execution_time < FastLimit
                   THEN FAdd(s2, FastBonus)
                   ELSE IF result.execution_time < MediumLimit
                        THEN FAdd(s2, MediumBonus)
                        ELSE s2
              ELSE s2
    IN  s3

\* _calculate_performance_score
calculate_performance_score(result) ==
    LET s1 == IF result.success = "true" THEN FAdd(FZero, SuccessWeight)
              ELSE FZero
        s2 == IF Truthy(result.quality_score)
              THEN FAdd(s1, QualityTimesWeight(result.quality_score))
              ELSE s1
        s3 == IF Truthy(result.execution_time)
              THEN IF result.execution_time < FastLimit
                   THEN FAdd(s2, FastBonus)
                   ELSE IF result.execution_time < MediumLimit
                        THEN FAdd(s2, MediumBonus)
                        ELSE s2
              ELSE s2
    IN  FMin(s3, ScoreCap)

HistoryThreshold == 10
RecentWindow == 10
AvgThreshold == FDiv(FInt(6), 10)

\* as Recent, but the window ends before the record just appended
RecentBeforeLast(history) ==
    IF Len(history) <= RecentWindow THEN history
    ELSE SubSeq(history, Len(history) - RecentWindow, Len(history) - 1)

\* history[-10:]
Recent(history) ==
    IF Len(history) <= RecentWindow THEN history
    ELSE SubSeq(history, Len(history) - RecentWindow + 1, Len(history))

\* sum() before Python 3.12: starts from 0 and adds from the left, rounding
\* after every addition; PlainSumTo(recs, n) is the total after n items
RECURSIVE PlainSumTo(_, _)
PlainSumTo(recs, n) ==
    IF n = 0 THEN FZero
    ELSE FAdd(PlainSumTo(recs, n - 1), recs[n].performance_score)

PlainSum(recs) == PlainSumTo(recs, Len(recs))

\* the sum of the first n scores without any rounding
RECURSIVE ExactSumTo(_, _)
ExactSumTo(recs, n) ==
    IF n = 0 THEN FZero
    ELSE LET e == ExactSumTo(recs, n - 1)
             x == recs[n].performance_score
             l == e[2] + x[2]
         IN  <<e[1] + x[1] + (l \div FBase), l % FBase>>

ExactSum(recs) == ExactSumTo(recs, Len(recs))

\* sum() from Python 3.12 on: Neumaier's compensated summation.  Every
\* rounding error of the running total is a whole number of units below
\* 2^53, so the compensation term holds their sum exactly and the final
\* total + c is the exact sum rounded once
CompensatedSum(recs) ==
    LET e == ExactSum(recs) IN FRound(e[1], e[2])

SumModes == {"plain", "compensated"}

\* sum(e['performance_score'] for e in recent_executions)
SumScores(recs) ==
    IF python_sum = "plain" THEN PlainSum(recs) ELSE CompensatedSum(recs)

Optimization(execution_data) ==
    [type |-> "performance_improvement",
     agent_name |-> execution_data.agent_name,
     suggestion |-> "Consider adjusting agent configuration for better performance",
     priority |-> "medium"]

\* as update_optimization_rules, but an agent that is already named by a
\* suggestion gets no second one
update_optimization_rules_once(history, rules, execution_data) ==
    IF Len(history) > HistoryThreshold
    THEN LET recent_executions == Recent(history)
             avg_score == FDiv(SumScores(recent_executions),
                              Len(recent_executions))
         IN  IF /\ FLess(avg_score, AvgThreshold)
                /\ \A k \in 1..Len(rules) :
                      rules[k].agent_name # execution_data.agent_name
             THEN Append(rules, Optimization(execution_data))
             ELSE rules
    ELSE rules

\* the optimization_rules after _update_optimization_rules
update_optimization_rules(history, rules, execution_data) ==
    IF Len(history) > HistoryThreshold
    THEN LET recent_executions == Recent(history)
             avg_score == FDiv(SumScores(recent_executions),
                              Len(recent_executions))
         IN  IF FLess(avg_score, AvgThreshold)
             THEN Append(rules, Optimization(execution_data))
             ELSE rules
    ELSE rules

ExecutionData(agent, result) ==
    [agent_name |-> agent.name,
     agent_type |-> agent.agent_type,
     result |-> result,
     performance_score |-> calculate_performance_score(result)]

\* as analyze_execution, but the history keeps the ten latest records only
analyze_execution_bounded(history, rules, agent, result) ==
    LET execution_data == ExecutionData(agent, result)
        appended == Recent(Append(history, execution_data))
    IN  <<appended, update_optimization_rules(appended, rules, execution_data)>>

\* <<execution_history, optimization_rules>> after analyze_execution
analyze_execution(history, rules, agent, result) ==
    LET execution_data == ExecutionData(agent, result)
        appended == Append(history, execution_data)
    IN  <<appended, update_optimization_rules(appended, rules, execution_data)>>


(***************************************************************************)
(* Strings whose characters the code looks at (trigger conditions, file   *)
(* names) are sequences of one-character strings.                         *)
(***************************************************************************)
UpperCase == <<"A", "B", "C", "D", "E", "F", "G", "H", "I", "J", "K", "L", "M",
               "N", "O", "P", "Q", "R", "S", "T", "U", "V", "W", "X", "Y", "Z">>
LowerCase == <<"a", "b", "c", "d", "e", "f", "g", "h", "i", "j", "k", "l", "m",
               "n", "o", "p", "q", "r", "s", "t", "u", "v", "w", "x", "y", "z">>

LowerChar(c) ==
    IF \E i \in 1..Len(UpperCase) : UpperCase[i] = c
    THEN LowerCase[CHOOSE i \in 1..Len(UpperCase) : UpperCase[i] = c]
    ELSE c

\* str.lower()
StrLower(str) == [i \in 1..Len(str) |-> LowerChar(str[i])]

\* sub in str
Contains(sub, str) ==
    \E i \in 1..(Len(str) - Len(sub) + 1) :
        SubSeq(str, i, i + Len(sub) - 1) = sub

Whitespace == {" ", "\n", "\t"}

\* str.strip()
RECURSIVE StrStrip(_)
StrStrip(str) ==
    IF str = <<>> THEN str
    ELSE IF str[1] \in Whitespace THEN StrStrip(Tail(str))
    ELSE IF str[Len(str)] \in Whitespace
         THEN StrStrip(SubSeq(str, 1, Len(str) - 1))
    ELSE str

C_always == <<"a", "l", "w", "a", "y", "s">>
C_file_changed == <<"f", "i", "l", "e", "_", "c", "h", "a", "n", "g", "e", "d">>
C_test_files_modified ==
    <<"t", "e", "s", "t", "_", "f", "i", "l", "e", "s", "_",
      "m", "o", "d", "i", "f", "i", "e", "d">>
C_complexity_high ==
    <<"c", "o", "m", "p", "l", "e", "x", "i", "t", "y", "_", "h", "i", "g", "h">>
C_platform_web == <<"p", "l", "a", "t", "f", "o", "r", "m", "_", "w", "e", "b">>
C_platform_mobile ==
    <<"p", "l", "a", "t", "f", "o", "r", "m", "_", "m", "o", "b", "i", "l", "e">>
S_test == <<"t", "e", "s", "t">>
S_true == <<"t", "r", "u", "e">>

(***************************************************************************)
(* AgentRegistry                                                           *)
(***************************************************************************)
RegisteredTypes == {"code_analysis", "test_automation", "documentation",
                    "deployment"}

\* None for a type that is not registered
get_agent_info(agent_type) ==
    IF agent_type \in RegisteredTypes THEN agent_type ELSE "None"

(***************************************************************************)
(* Project requests.  files_modified is absent, a list of file names, or  *)
(* a value of another type (a number: a count of files).                  *)
(***************************************************************************)
F_app == <<"a", "p", "p", ".", "j", "s">>
F_TestUtils == <<"T", "e", "s", "t", "U", "t", "i", "l", "s", ".", "j", "s">>

FilesAbsent == [kind |-> "absent", items |-> <<>>, number |-> 0]
FilesList(items) == [kind |-> "list", items |-> items, number |-> 0]
FilesNumber(n) == [kind |-> "number", items |-> <<>>, number |-> n]

Requests ==
    {[files_modified |-> FilesList(<<F_app, F_TestUtils>>),
      complexity |-> "high", platform |-> "web"],
     [files_modified |-> FilesList(<<F_app>>),
      complexity |-> "absent", platform |-> "mobile"],
     [files_modified |-> FilesAbsent,
      complexity |-> "medium", platform |-> "absent"],
     [files_modified |-> FilesNumber(2),
      complexity |-> "high", platform |-> "web"]}

\* project_request.get('files_modified', False) taken as a truth value
FilesTruthy(fm) ==
    CASE fm.kind = "absent" -> FALSE
      [] fm.kind = "list" -> fm.items # <<>>
      [] fm.kind = "number" -> fm.number # 0

(***************************************************************************)
(* The external text-generation service: a call fails or returns text.    *)
(***************************************************************************)
ServiceFailure == <<"!">>
ServiceAnswers ==
    {<<"t", "r", "u", "e">>,
     <<" ", "T", "r", "u", "e", "\n">>,
     <<"f", "a", "l", "s", "e">>,
     <<"t", "r", "u", "e", ".">>}
ServiceOutcomes == ServiceAnswers \cup {ServiceFailure}

\* the text an agent's prompt is answered with
GeneratedText == <<"o", "k">>

\* the calls a step made to the service and what the call produced
NoOutcome == <<>>
NoService == [calls |-> 0, outcome |-> NoOutcome]
OneCall(outcome) == [calls |-> 1, outcome |-> outcome]

\* as evaluate_custom_condition, but the response is not stripped
evaluate_custom_condition_unstripped(condition, project_request, outcome) ==
    IF outcome = ServiceFailure THEN "false"
    ELSE IF StrLower(outcome) = S_true THEN "true" ELSE "false"

\* _evaluate_custom_condition, given what the service call produced
evaluate_custom_condition(condition, project_request, outcome) ==
    IF outcome = ServiceFailure THEN "false"
    ELSE IF StrLower(StrStrip(outcome)) = S_true THEN "true" ELSE "false"

IsCustom(trigger) ==
    StrLower(trigger.condition) \notin
        {C_always, C_file_changed, C_test_files_modified, C_complexity_high,
         C_platform_web, C_platform_mobile}

\* _evaluate_trigger: "true", "false", or "raise" when an exception leaves it
evaluate_trigger(trigger, project_request, outcome) ==
    LET condition == StrLower(trigger.condition)
        fm == project_request.files_modified
    IN  IF condition = C_always THEN "true"
        ELSE IF condition = C_file_changed
             THEN IF FilesTruthy(fm) THEN "true" ELSE "false"
        ELSE IF condition = C_test_files_modified
             THEN IF fm.kind = "number" THEN "raise"
                  ELSE IF \E i \in 1..Len(fm.items) :
                             Contains(S_test, StrLower(fm.items[i]))
                       THEN "true" ELSE "false"
        ELSE IF condition = C_complexity_high
             THEN IF project_request.complexity = "high" THEN "true" ELSE "false"
        ELSE IF condition = C_platform_web
             THEN IF project_request.platform = "web" THEN "true" ELSE "false"
        ELSE IF condition = C_platform_mobile
             THEN IF project_request.platform = "mobile" THEN "true" ELSE "false"
        ELSE evaluate_custom_condition(condition, project_request, outcome)

\* as evaluate_trigger_calls, but the condition is compared as written
evaluate_trigger_calls_as_written(trigger) ==
    LET condition == trigger.condition
    IN  IF condition \in {C_always, C_file_changed, C_test_files_modified,
                          C_complexity_high, C_platform_web, C_platform_mobile}
        THEN 0
        ELSE 1

\* the number of calls _evaluate_trigger makes to the service: none in the
\* six branches of lines 268-279, the one of _evaluate_custom_condition
\* (lines 295-300) in the else branch
evaluate_trigger_calls(trigger) ==
    LET condition == StrLower(trigger.condition)
    IN  IF condition = C_always THEN 0
        ELSE IF condition = C_file_changed THEN 0
        ELSE IF condition = C_test_files_modified THEN 0
        ELSE IF condition = C_complexity_high THEN 0
        ELSE IF condition = C_platform_web THEN 0
        ELSE IF condition = C_platform_mobile THEN 0
        ELSE 1


(***************************************************************************)
(* Rule documents, as yaml.safe_load returns them.  `missing' lists the   *)
(* keys a mapping of the document does not have.                          *)
(***************************************************************************)
AgentData(name, type) == [name |-> name, type |-> type, missing |-> {}]
TriggerData(name, condition, enabled, agents) ==
    [name |-> name, condition |-> condition, enabled |-> enabled,
     agents |-> agents, missing |-> {}]

C_custom == C_always \o <<" ">>

DocMain ==
    [malformed |-> FALSE,
     triggers |->
       <<TriggerData("on_any", <<"A", "L", "W", "A", "Y", "S">>, "absent",
                     <<AgentData("analyzer", "code_analysis"),
                       AgentData("helper", "custom_type")>>),
         TriggerData("off", C_always, "false",
                     <<AgentData("deployer", "deployment")>>),
         TriggerData("on_tests", C_test_files_modified, "true",
                     <<AgentData("tester", "test_automation")>>)>>]

DocCustom ==
    [malformed |-> FALSE,
     triggers |->
       <<TriggerData("on_custom", C_custom, "absent",
                     <<AgentData("writer", "documentation")>>),
         TriggerData("on_tests", C_test_files_modified, "absent",
                     <<AgentData("tester", "test_automation")>>)>>]

DocBadSecond ==
    [malformed |-> FALSE,
     triggers |->
       <<TriggerData("on_files", C_file_changed, "absent",
                     <<AgentData("analyzer", "code_analysis")>>),
         [TriggerData("broken", <<>>, "absent",
                      <<AgentData("writer", "documentation")>>)
            EXCEPT !.missing = {"condition"}],
         TriggerData("on_complex", C_complexity_high, "absent",
                     <<AgentData("deployer", "deployment")>>)>>]

DocBadFirst ==
    [malformed |-> FALSE,
     triggers |->
       <<TriggerData("broken", C_always, "absent",
                     <<[AgentData("analyzer", "") EXCEPT !.missing = {"type"}]>>),
         TriggerData("on_mobile", C_platform_mobile, "absent",
                     <<AgentData("tester", "test_automation")>>)>>]

DocMalformed == [malformed |-> TRUE, triggers |-> <<>>]

Documents == {DocMain, DocCustom, DocBadSecond, DocBadFirst, DocMalformed}

\* Agent(name=..., agent_type=...): status idle, never executed
NewAgent(agent_data) ==
    [name |-> agent_data.name, agent_type |-> agent_data.type,
     status |-> "idle", last_executed |-> 0, execution_count |-> 0]

\* Trigger(...): enabled defaults to True
NewTrigger(trigger_data) ==
    [name |-> trigger_data.name,
     condition |-> trigger_data.condition,
     agents |-> [j \in 1..Len(trigger_data.agents) |->
                    NewAgent(trigger_data.agents[j])],
     enabled |-> trigger_data.enabled # "false"]

\* building this trigger raises KeyError: agent_data['name'], agent_data['type'],
\* trigger_data['name'] or trigger_data['condition'] is missing
RaisesKeyError(trigger_data) ==
    \/ \E j \in 1..Len(trigger_data.agents) :
           trigger_data.agents[j].missing # {}
    \/ trigger_data.missing # {}

\* number of triggers appended to self.triggers before the loop ends or raises
RECURSIVE LoadedCount(_)
LoadedCount(trigger_seq) ==
    IF trigger_seq = <<>> \/ RaisesKeyError(Head(trigger_seq)) THEN 0
    ELSE 1 + LoadedCount(Tail(trigger_seq))

\* as load_rules, but the new triggers are added to those already loaded
load_rules_appending(old_triggers, doc) ==
    IF doc.malformed THEN old_triggers
    ELSE old_triggers \o
         [i \in 1..LoadedCount(doc.triggers) |-> NewTrigger(doc.triggers[i])]

\* self.triggers after load_rules has run on the document, given the old value
load_rules(old_triggers, doc) ==
    IF doc.malformed THEN old_triggers
    ELSE [i \in 1..LoadedCount(doc.triggers) |-> NewTrigger(doc.triggers[i])]

\* load_rules re-raises what it caught
load_rules_raises(doc) ==
    doc.malformed \/ LoadedCount(doc.triggers) < Len(doc.triggers)


(***************************************************************************)
(* Agent execution                                                         *)
(***************************************************************************)
ExecTimes == {70}

\* the payload the _execute_*_agent method of the type returns
Payload(agent_type) ==
    CASE agent_type = "code_analysis" ->
           [shape |-> "analysis", quality_score |-> 85]
      [] agent_type = "test_automation" ->
           [shape |-> "test_strategy", quality_score |-> NoField]
      [] agent_type = "documentation" ->
           [shape |-> "documentation", quality_score |-> NoField]
      [] agent_type = "deployment" ->
           [shape |-> "deployment_strategy", quality_score |-> NoField]
      [] OTHER ->
           [shape |-> "output", quality_score |-> NoField]

SuccessResult(agent_type, elapsed) ==
    [success |-> "true", error |-> "", execution_time |-> elapsed,
     shape |-> Payload(agent_type).shape,
     quality_score |-> Payload(agent_type).quality_score]

FailureResult(message, elapsed) ==
    [success |-> "false", error |-> message, execution_time |-> elapsed,
     shape |-> "", quality_score |-> NoField]

NoResult ==
    [success |-> "absent", error |-> "", execution_time |-> NoField,
     shape |-> "", quality_score |-> NoField]

\* the try block of _execute_agent raises: the type is unknown or the call
\* to the service fails
ExecutionRaises(agent, service_ok) ==
    get_agent_info(agent.agent_type) = "None" \/ ~service_ok

\* as ErrorMessage, but the message does not say which type was unknown
ErrorMessageWithoutType(agent, service_ok) ==
    IF get_agent_info(agent.agent_type) = "None"
    THEN "Unknown agent type"
    ELSE "service call failed"

\* str(e) in the handler of _execute_agent
ErrorMessage(agent, service_ok) ==
    IF get_agent_info(agent.agent_type) = "None"
    THEN "Unknown agent type: " \o agent.agent_type
    ELSE "service call failed"

\* as ExecutedAgent, but the handler of the exception forgets the status
ExecutedAgentKeepsStatus(agent, service_ok, now) ==
    IF ExecutionRaises(agent, service_ok)
    THEN agent
    ELSE [agent EXCEPT !.status = "completed",
                       !.last_executed = now,
                       !.execution_count = @ + 1]

\* the agent when _execute_agent returns
ExecutedAgent(agent, service_ok, now) ==
    IF ExecutionRaises(agent, service_ok)
    THEN [agent EXCEPT !.status = "error"]
    ELSE [agent EXCEPT !.status = "completed",
                       !.last_executed = now,
                       !.execution_count = @ + 1]

\* the value _execute_agent returns
ExecutionResult(agent, service_ok, elapsed) ==
    IF ExecutionRaises(agent, service_ok)
    THEN FailureResult(ErrorMessage(agent, service_ok), elapsed)
    ELSE SuccessResult(agent.agent_type, elapsed)

\* the number of calls _execute_agent makes to the service: none when line
\* 320 raises, else the one of the _execute_*_agent method it dispatches to
execute_agent_calls(agent) ==
    IF get_agent_info(agent.agent_type) = "None" THEN 0 ELSE 1

(***************************************************************************)
(* InjectionEngine                                                         *)
(***************************************************************************)
MaxProcess == 2
MaxLoads == 2

NoRequest ==
    [files_modified |-> FilesAbsent, complexity |-> "", platform |-> ""]

\* meta_agent_insights names the list object it refers to: the new empty
\* list of the results dictionary, or MetaAgent.optimization_rules itself
NewResults ==
    [agents_executed |-> <<>>, overall_status |-> "success",
     meta_agent_insights |-> "new_list", error |-> "<no key>"]

NoReport ==
    [agents_executed |-> <<>>, overall_status |-> "<none>",
     meta_agent_insights |-> "new_list", error |-> "<no key>"]

NoStatus ==
    [total_triggers |-> -1, enabled_triggers |-> -1,
     meta_agent_insights |-> <<>>]

\* last_call: the operation called on the engine or on its meta_agent, for
\* load_rules its document and whether it raised, for get_system_status the
\* dictionary it returned
Call(op, doc, raised, status) ==
    [op |-> op, document |-> doc, raised |-> raised, status |-> status]

NoCall == Call("none", DocMalformed, FALSE, NoStatus)

\* as WithExecuted, but the entry is put in front of the list
WithExecutedInFront(res, agent, result) ==
    [res EXCEPT !.agents_executed =
        <<[agent_name |-> agent.name, agent_type |-> agent.agent_type,
           result |-> result]>> \o @]

\* results['agents_executed'].append({...}): lines 245-249
WithExecuted(res, agent, result) ==
    [res EXCEPT !.agents_executed =
        Append(@, [agent_name |-> agent.name, agent_type |-> agent.agent_type,
                   result |-> result])]

\* as ErrorResults, but results['error'] is not set
ErrorResultsWithoutKey(res, message) ==
    [res EXCEPT !.overall_status = "error"]

\* the handler of process_project_request: lines 257-260
ErrorResults(res, message) ==
    [res EXCEPT !.overall_status = "error", !.error = message]

Init ==
    /\ python_sum \in SumModes
    /\ triggers = <<>>
    /\ execution_history = <<>>
    /\ optimization_rules = <<>>
    /\ pc = "idle"
    /\ request = NoRequest
    /\ results = NoReport
    /\ trigger_index = 0
    /\ agent_index = 0
    /\ agent_result = NoResult
    /\ fired = <<>>
    /\ history_before = 0
    /\ report = NoReport
    /\ last_call = NoCall
    /\ service = NoService
    /\ clock = 0
    /\ n_process = 0
    /\ n_load = 0

\* load_rules(rules_content)
LoadRules(doc) ==
    /\ pc = "idle"
    /\ n_load < MaxLoads
    /\ triggers' = load_rules(triggers, doc)
    /\ last_call' = Call("load_rules", doc, load_rules_raises(doc), NoStatus)
    /\ n_load' = n_load + 1
    /\ service' = NoService
    /\ UNCHANGED <<python_sum, metaVars, callVars, report, clock, n_process>>

\* as get_system_status, but without the suggestions
get_system_status_without_insights ==
    [total_triggers |-> Len(triggers),
     enabled_triggers |->
         Cardinality({i \in 1..Len(triggers) : triggers[i].enabled}),
     meta_agent_insights |-> <<>>]

\* the dictionary get_system_status builds
get_system_status ==
    [total_triggers |-> Len(triggers),
     enabled_triggers |->
         Cardinality({i \in 1..Len(triggers) : triggers[i].enabled}),
     meta_agent_insights |-> optimization_rules]

\* get_system_status()
GetSystemStatus ==
    /\ pc = "idle"
    /\ last_call' = Call("get_system_status", DocMalformed, FALSE,
                          get_system_status)
    /\ service' = NoService
    /\ UNCHANGED <<python_sum, metaVars, triggers, callVars, report, clock,
                   n_process, n_load>>

\* process_project_request is called: lines 223-231
ProcessStart(project_request) ==
    /\ pc = "idle"
    /\ n_process < MaxProcess
    /\ n_process' = n_process + 1
    /\ request' = project_request
    /\ results' = NewResults
    /\ trigger_index' = 1
    /\ agent_index' = 0
    /\ fired' = <<>>
    /\ history_before' = Len(execution_history)
    /\ pc' = "next_trigger"
    /\ last_call' = Call("process_project_request", DocMalformed, FALSE,
                          NoStatus)
    /\ service' = NoService
    /\ UNCHANGED <<python_sum, metaVars, triggers, agent_result, report,
                   clock, n_load>>

AtTrigger ==
    /\ pc = "next_trigger"
    /\ trigger_index <= Len(triggers)

\* `if not trigger.enabled: continue'
SkipDisabled ==
    /\ AtTrigger
    /\ ~triggers[trigger_index].enabled
    /\ trigger_index' = trigger_index + 1
    /\ service' = NoService
    /\ UNCHANGED <<python_sum, metaVars, triggers, pc, request, fired,
                   history_before, results, agent_index, agent_result,
                   report, last_call, clock, n_process, n_load>>

\* `if await self._evaluate_trigger(trigger, project_request)'; an exception
\* that leaves it is caught by the handler of process_project_request, which
\* returns the results
EvaluateTrigger(outcome) ==
    /\ AtTrigger
    /\ triggers[trigger_index].enabled
    /\ LET fires == evaluate_trigger(triggers[trigger_index], request, outcome)
       IN  CASE fires = "true" ->
                  /\ pc' = "next_agent"
                  /\ agent_index' = 1
                  /\ fired' = Append(fired, trigger_index)
                  /\ UNCHANGED <<trigger_index, results, report>>
             [] fires = "false" ->
                  /\ trigger_index' = trigger_index + 1
                  /\ UNCHANGED <<pc, agent_index, results, report, fired>>
             [] fires = "raise" ->
                  /\ results' = ErrorResults(results, "condition raised")
                  /\ report' = results'
                  /\ pc' = "idle"
                  /\ UNCHANGED <<trigger_index, agent_index, fired>>
    /\ service' = IF evaluate_trigger_calls(triggers[trigger_index]) = 0
                  THEN NoService
                  ELSE OneCall(outcome)
    /\ UNCHANGED <<python_sum, metaVars, triggers, request, agent_result,
                   history_before, last_call, clock, n_process, n_load>>

AtAgent ==
    /\ pc = "next_agent"
    /\ agent_index <= Len(triggers[trigger_index].agents)

\* _execute_agent is entered: lines 311-314
StartAgent ==
    /\ AtAgent
    /\ triggers' = [triggers EXCEPT
                      ![trigger_index].agents[agent_index].status = "executing"]
    /\ clock' = clock + 1
    /\ pc' = "executing"
    /\ service' = NoService
    /\ UNCHANGED <<python_sum, metaVars, request, fired, history_before,
                   results, trigger_index, agent_index, agent_result, report,
                   last_call, n_process, n_load>>

\* _execute_agent runs its try block and returns: lines 316-357
FinishAgent(service_ok, elapsed) ==
    /\ pc = "executing"
    /\ LET agent == triggers[trigger_index].agents[agent_index]
       IN  /\ triggers' = [triggers EXCEPT
                             ![trigger_index].agents[agent_index] =
                                 ExecutedAgent(agent, service_ok, clock)]
           /\ agent_result' = ExecutionResult(agent, service_ok, elapsed)
           /\ service' = IF execute_agent_calls(agent) = 0 THEN NoService
                         ELSE OneCall(IF service_ok THEN GeneratedText
                                      ELSE ServiceFailure)
    /\ pc' = "executed"
    /\ UNCHANGED <<python_sum, metaVars, request, fired, history_before,
                   results, trigger_index, agent_index, report, last_call,
                   clock, n_process, n_load>>

\* the result is appended to agents_executed and handed to the MetaAgent:
\* lines 245-252
RecordResult ==
    /\ pc = "executed"
    /\ LET agent == triggers[trigger_index].agents[agent_index]
           after == analyze_execution(execution_history, optimization_rules,
                                      agent, agent_result)
       IN  /\ results' = WithExecuted(results, agent, agent_result)
           /\ execution_history' = after[1]
           /\ optimization_rules' = after[2]
    /\ agent_result' = NoResult
    /\ agent_index' = agent_index + 1
    /\ pc' = "next_agent"
    /\ service' = NoService
    /\ UNCHANGED <<python_sum, triggers, request, fired, history_before,
                   trigger_index, report, last_call, clock, n_process,
                   n_load>>

\* the inner loop is exhausted: on to the next trigger
AgentsDone ==
    /\ pc = "next_agent"
    /\ agent_index > Len(triggers[trigger_index].agents)
    /\ trigger_index' = trigger_index + 1
    /\ agent_index' = 0
    /\ pc' = "next_trigger"
    /\ service' = NoService
    /\ UNCHANGED <<python_sum, metaVars, triggers, request, fired,
                   history_before, results, agent_result, report, last_call,
                   clock, n_process, n_load>>

\* what a caller reads in meta_agent_insights of the Report it holds:
\* get_optimization_suggestions returns the MetaAgent's list object itself
ReportInsights ==
    IF report.meta_agent_insights = "optimization_rules"
    THEN optimization_rules
    ELSE <<>>

\* the outer loop is exhausted: lines 255 and 262
ProcessReturn ==
    /\ pc = "next_trigger"
    /\ trigger_index > Len(triggers)
    /\ results' = [results EXCEPT !.meta_agent_insights = "optimization_rules"]
    /\ report' = results'
    /\ pc' = "idle"
    /\ service' = NoService
    /\ UNCHANGED <<python_sum, metaVars, triggers, request, fired,
                   history_before, trigger_index, agent_index, agent_result,
                   last_call, clock, n_process, n_load>>

Next ==
    \/ \E doc \in Documents : LoadRules(doc)
    \/ GetSystemStatus
    \/ \E project_request \in Requests : ProcessStart(project_request)
    \/ SkipDisabled
    \/ \E outcome \in ServiceOutcomes : EvaluateTrigger(outcome)
    \/ StartAgent
    \/ \E service_ok \in BOOLEAN, elapsed \in ExecTimes :
           FinishAgent(service_ok, elapsed)
    \/ RecordResult
    \/ AgentsDone
    \/ ProcessReturn

Spec == Init /\ [][Next]_vars

(***************************************************************************)
(* The engine on rule documents of one trigger with one agent: every      *)
(* condition of the fixed vocabulary, in several spellings, conditions    *)
(* outside it, and every agent type, registered or not.                   *)
(***************************************************************************)
OneConditions ==
    {C_always, C_file_changed, C_test_files_modified, C_complexity_high,
     C_platform_web, C_platform_mobile,
     <<"A", "L", "W", "A", "Y", "S">>,
     <<"P", "l", "a", "t", "f", "o", "r", "m", "_", "W", "e", "b">>,
     C_custom,
     <<"a", "l", "w", "a", "y">>}

OneAgentTypes == RegisteredTypes \cup {"custom_type"}

DocOne(condition, enabled, type) ==
    [malformed |-> FALSE,
     triggers |-> <<TriggerData("only", condition, enabled,
                                <<AgentData("worker", type)>>)>>]

OneDocuments ==
    {DocOne(c, "absent", "code_analysis") : c \in OneConditions}
      \cup {DocOne(C_always, "absent", type) : type \in OneAgentTypes}
      \cup {DocOne(C_always, "false", "deployment")}

NextOne ==
    \/ \E doc \in OneDocuments : LoadRules(doc)
    \/ \E project_request \in Requests : ProcessStart(project_request)
    \/ SkipDisabled
    \/ \E outcome \in ServiceOutcomes : EvaluateTrigger(outcome)
    \/ StartAgent
    \/ \E service_ok \in BOOLEAN, elapsed \in ExecTimes :
           FinishAgent(service_ok, elapsed)
    \/ RecordResult
    \/ AgentsDone
    \/ ProcessReturn

SpecOne == Init /\ [][NextOne]_vars


(***************************************************************************)
(* The MetaAgent on its own: analyze_execution called directly, with any  *)
(* result dictionary.                                                      *)
(***************************************************************************)
Caller(name, agent_type) ==
    [name |-> name, agent_type |-> agent_type, status |-> "idle",
     last_executed |-> 0, execution_count |-> 0]

Result(success, quality_score, execution_time) ==
    [success |-> success, error |-> "", execution_time |-> execution_time,
     shape |-> "", quality_score |-> quality_score]

\* MetaAgent.analyze_execution(agent, result)
AnalyzeExecution(agent, result) ==
    /\ pc = "idle"
    /\ LET after == analyze_execution(execution_history, optimization_rules,
                                      agent, result)
       IN  /\ execution_history' = after[1]
           /\ optimization_rules' = after[2]
    /\ last_call' = Call("analyze_execution", DocMalformed, FALSE, NoStatus)
    /\ UNCHANGED <<python_sum, triggers, callVars, report, service, clock,
                   n_process, n_load>>

\* scoring: few records, every shape of result
MaxScoreRecords == 1

ScoreResults ==
    {Result(s, q, t) : s \in {"true", "false", "absent"},
                       q \in {NoField, 0, 50, 85, 100, 200},
                       t \in {NoField, 0, 20, 50, 70, 100, 120}}

NextScore ==
    \E result \in ScoreResults :
        /\ Len(execution_history) < MaxScoreRecords
        /\ AnalyzeExecution(Caller("analyzer", "code_analysis"), result)

SpecScore == Init /\ [][NextScore]_vars

\* suggestions: a long history, three results scoring 0.2, 0.6 and 0.955
MaxMetaRecords == 11

MetaInputs ==
    {<<Caller("helper", "custom_type"), Result("false", NoField, 20)>>,
     <<Caller("tester", "test_automation"), Result("true", NoField, 70)>>,
     <<Caller("analyzer", "code_analysis"), Result("true", 85, 20)>>}

NextMeta ==
    \E input \in MetaInputs :
        /\ Len(execution_history) < MaxMetaRecords
        /\ AnalyzeExecution(input[1], input[2])

SpecMeta == Init /\ [][NextMeta]_vars

\* the window of ten: results scoring 0.2 and 0.955, so that a window never
\* averages exactly 0.6
WindowInputs ==
    {<<Caller("helper", "custom_type"), Result("false", NoField, 20)>>,
     <<Caller("analyzer", "code_analysis"), Result("true", 85, 20)>>}

NextWindow ==
    \E input \in WindowInputs :
        /\ Len(execution_history) < MaxMetaRecords
        /\ AnalyzeExecution(input[1], input[2])

SpecWindow == Init /\ [][NextWindow]_vars

\* low scores only: a failed result scoring 0.2 and a slow success scoring 0.5
MaxLowRecords == 16

LowInputs ==
    {<<Caller("helper", "custom_type"), Result("false", NoField, 20)>>,
     <<Caller("tester", "test_automation"), Result("true", NoField, 120)>>}

NextLow ==
    \E input \in LowInputs :
        /\ Len(execution_history) < MaxLowRecords
        /\ AnalyzeExecution(input[1], input[2])

SpecLow == Init /\ [][NextLow]_vars

\* the engine of an application that first reports results of its own to
\* engine.meta_agent (failed results scoring 0.2, so that suggestions
\* appear) and then processes requests
MaxStatusRecords == 12

StatusRequest ==
    [files_modified |-> FilesList(<<F_app, F_TestUtils>>),
     complexity |-> "high", platform |-> "web"]

NextStatus ==
    \/ /\ n_process = 0
       /\ Len(execution_history) < MaxStatusRecords
       /\ AnalyzeExecution(Caller("helper", "custom_type"),
                           Result("false", NoField, 20))
    \/ GetSystemStatus
    \/ \E doc \in {DocMain, DocBadSecond} : LoadRules(doc)
    \/ ProcessStart(StatusRequest)
    \/ SkipDisabled
    \/ \E outcome \in ServiceOutcomes : EvaluateTrigger(outcome)
    \/ StartAgent
    \/ \E service_ok \in BOOLEAN, elapsed \in ExecTimes :
           FinishAgent(service_ok, elapsed)
    \/ RecordResult
    \/ AgentsDone
    \/ ProcessReturn

SpecStatus == Init /\ [][NextStatus]_vars


(***************************************************************************)
(* Properties of the MetaAgent                                             *)
(***************************************************************************)
\* a score as a decimal number: thousandths, rounded to the nearest
Thousandths(x) == ((x[1] \div 2^10) * 1000 + 2^15) \div 2^16

InUnitInterval(x) == ~FLess(x, FZero) /\ ~FLess(FInt(1), x)

\* C8: every record of MetaAgent's history has a performance_score in
\* [0, 1], after any sequence of record operations and whatever the result
\* recorded (so in particular for every quality_score in [0, 1] and every
\* non-negative elapsed time).
C8_ScoreInUnitInterval ==
    \A i \in 1..Len(execution_history) :
        InUnitInterval(execution_history[i].performance_score)

\* a result with quality_score 1.0 that was successful and fast is recorded:
\* the three terms add up to the cap
C8_Witness ==
    \E i \in 1..Len(execution_history) :
        /\ execution_history[i].result.success = "true"
        /\ execution_history[i].result.quality_score = 100
        /\ execution_history[i].result.execution_time = 20
        /\ execution_history[i].performance_score = FInt(1)

\* the score the sentence gives: min(1.0, a + b + c), in thousandths
StatedScore(result) ==
    LET a == IF result.success = "true" THEN 500 ELSE 0
        b == IF result.quality_score # NoField
             THEN 3 * result.quality_score ELSE 0
        c == IF result.execution_time = NoField THEN 0
             ELSE IF result.execution_time < FastLimit THEN 200
             ELSE IF result.execution_time < MediumLimit THEN 100
             ELSE 0
    IN  IF a + b + c > 1000 THEN 1000 ELSE a + b + c

\* C9: the performance score of every recorded result equals
\* min(1.0, a + b + c) with a = 0.5 for success, b = 0.3 x quality_score when
\* present, c = 0.2 for an elapsed time below 5.0, 0.1 below 10.0, else 0,
\* for every elapsed time including exactly 0.
C9_ScoreFormula ==
    \A i \in 1..Len(execution_history) :
        Thousandths(execution_history[i].performance_score) =
            StatedScore(execution_history[i].result)

\* the mean of the window is below 0.6, taking the scores as decimal numbers
StatedMeanLow(history) ==
    LET recent == Recent(history)
        RECURSIVE Total(_)
        Total(n) == IF n = 0 THEN 0
                    ELSE Total(n - 1) + Thousandths(recent[n].performance_score)
    IN  Total(Len(recent)) < 600 * Len(recent)

\* C10: a record operation appends exactly one suggestion, naming the agent
\* of the record just added and of priority medium, if the history then
\* holds more than 10 records and the mean score of the 10 most recent is
\* below 0.6; otherwise it appends none.
C10_SuggestionRule ==
    [][execution_history' # execution_history =>
        LET last == execution_history'[Len(execution_history')]
        IN  IF Len(execution_history') > 10 /\ StatedMeanLow(execution_history')
            THEN /\ Len(optimization_rules') = Len(optimization_rules) + 1
                 /\ SubSeq(optimization_rules', 1, Len(optimization_rules))
                      = optimization_rules
                 /\ optimization_rules'[Len(optimization_rules')].agent_name
                      = last.agent_name
                 /\ optimization_rules'[Len(optimization_rules')].priority
                      = "medium"
            ELSE optimization_rules' = optimization_rules]_vars

\* the total of the scores of some records, in thousandths
RECURSIVE DecimalTotal(_)
DecimalTotal(recs) ==
    IF recs = <<>> THEN 0
    ELSE Thousandths(Head(recs).performance_score) + DecimalTotal(Tail(recs))

\* this step records the 11th result, the first ten averaging below 0.6
EleventhAfterLowTen ==
    /\ Len(execution_history) = 10
    /\ Len(execution_history') = 11
    /\ DecimalTotal(execution_history) < 600 * 10

AppendsOne ==
    /\ Len(optimization_rules') = Len(optimization_rules) + 1
    /\ SubSeq(optimization_rules', 1, Len(optimization_rules))
          = optimization_rules

\* C11: after 10 recorded results whose average score is below 0.6, the
\* 11th record appends exactly one new suggestion, whatever the score of the
\* 11th result.
C11_EleventhAppends ==
    [][EleventhAfterLowTen => AppendsOne]_vars

\* C11, amended: after 10 recorded results whose average score is below
\* 0.6, the 11th record appends exactly one new suggestion if the ten most
\* recent results (the 2nd to the 11th) average below 0.6, and appends none
\* if they average above 0.6.
C11_EleventhAppendsIfWindowLow ==
    [][EleventhAfterLowTen =>
          LET window == DecimalTotal(SubSeq(execution_history', 2, 11))
          IN  /\ window < 600 * 10 => AppendsOne
              /\ window > 600 * 10 =>
                    optimization_rules' = optimization_rules]_vars

\* eleven results are recorded, the first scoring 0.955 and the first ten
\* averaging below 0.6, and the 11th record has appended the first suggestion
C11_Witness ==
    /\ Len(execution_history) = 11
    /\ DecimalTotal(SubSeq(execution_history, 1, 10)) < 600 * 10
    /\ Thousandths(execution_history[1].performance_score) = 955
    /\ Len(optimization_rules) = 1
    /\ optimization_rules[1].agent_name = execution_history[11].agent_name

AllScoresLow ==
    \A i \in 1..Len(execution_history) :
        Thousandths(execution_history[i].performance_score) < 600

\* C12: starting from an empty MetaAgent, when each of the first n recorded
\* results scores below 0.6 the suggestion list holds exactly max(0, n - 10)
\* entries after the n-th record: one per record from the 11th on, each
\* naming the agent of its record, also when that agent is already named.
C12_OnePerLowRecord ==
    AllScoresLow =>
        LET n == Len(execution_history)
        IN  /\ Len(optimization_rules) = IF n > 10 THEN n - 10 ELSE 0
            /\ \A k \in 1..Len(optimization_rules) :
                  optimization_rules[k].agent_name
                     = execution_history[10 + k].agent_name

\* 13 low-scoring results are recorded and the three suggestions all name
\* the same agent
C12_Witness ==
    /\ AllScoresLow
    /\ Len(execution_history) = 13
    /\ Len(optimization_rules) = 3
    /\ \A k \in 1..3 : optimization_rules[k].agent_name = "helper"


(***************************************************************************)
(* Properties of process_project_request                                   *)
(***************************************************************************)
\* a call is running, or has just returned and no other call was made since
InCall == last_call.op = "process_project_request"
Returned == InCall /\ pc = "idle"

\* the agents of trigger t that have run and been recorded so far
DoneAgents(t) ==
    IF t = trigger_index /\ pc \in {"next_agent", "executing", "executed"}
    THEN SubSeq(triggers[t].agents, 1, agent_index - 1)
    ELSE triggers[t].agents

\* the agents of the triggers fired so far, trigger by trigger
RECURSIVE AgentsOfFired(_)
AgentsOfFired(n) ==
    IF n = 0 THEN <<>>
    ELSE AgentsOfFired(n - 1) \o DoneAgents(fired[n])

\* the triggers the loop has left behind
Visited == {t \in 1..Len(triggers) :
               \/ t < trigger_index
               \/ /\ t = trigger_index
                  /\ pc \in {"next_agent", "executing", "executed"}}

FiredSet == {fired[n] : n \in 1..Len(fired)}

\* the records the MetaAgent has appended during this call
NewRecords ==
    SubSeq(execution_history, history_before + 1, Len(execution_history))

StoppedByCondition ==
    /\ trigger_index \in 1..Len(triggers)
    /\ triggers[trigger_index].enabled
    /\ evaluate_trigger(triggers[trigger_index], request, ServiceFailure)
         = "raise"

HasFailure(rep) ==
    \E k \in 1..Len(rep.agents_executed) :
        rep.agents_executed[k].result.success = "false"

\* on this request no enabled trigger with a condition of the fixed
\* vocabulary is true, and no trigger has fired so far
NoTriggerTrue ==
    /\ fired = <<>>
    /\ \A t \in 1..Len(triggers) :
          (triggers[t].enabled /\ ~IsCustom(triggers[t])) =>
              evaluate_trigger(triggers[t], request, ServiceFailure) # "true"

\* C13: a process call in which no enabled trigger's condition is true
\* returns overall_status success and an empty agents_executed, and leaves
\* the suggestion list, the history and every agent's status, execution_count
\* and last_executed unchanged.
C13_NoMatchNoEffect ==
    [][(InCall' /\ pc # "idle" /\ NoTriggerTrue') =>
          /\ optimization_rules' = optimization_rules
          /\ execution_history' = execution_history
          /\ triggers' = triggers
          /\ pc' = "idle" =>
                /\ report'.overall_status = "success"
                /\ report'.agents_executed = <<>>]_vars

\* C2: an agent execution that fails inside process (unknown type or service
\* failure) comes back as a result with success = false, every later agent
\* of the trigger and every later enabled trigger is still processed, and
\* the Report's overall_status stays success.
C2_FailureIsData ==
    /\ pc = "executed" =>
          /\ results.overall_status = "success"
          /\ (triggers[trigger_index].agents[agent_index].status = "error"
                <=> agent_result.success = "false")
    /\ (Returned /\ HasFailure(report)) =>
          /\ report.overall_status = "success"
          /\ trigger_index = Len(triggers) + 1
          /\ Len(report.agents_executed) = Len(AgentsOfFired(Len(fired)))

\* C3: for every condition and every request, also one whose files_modified
\* is not a sequence of strings, a failure raised while the condition is
\* evaluated counts as false: the trigger does not fire, the call still
\* visits every later trigger, and it returns overall_status success.
C3_ConditionFailureIsFalse ==
    Returned =>
        /\ report.overall_status = "success"
        /\ trigger_index = Len(triggers) + 1
        /\ \A t \in 1..Len(triggers) :
              (/\ triggers[t].enabled
               /\ evaluate_trigger(triggers[t], request, ServiceFailure)
                    = "raise") => t \notin FiredSet

\* C4: when load_rules fails, the engine's triggers are the previously
\* loaded set unchanged or empty, never a part of the new document.
C4_NoPartialLoad ==
    [][(n_load' = n_load + 1 /\ last_call'.raised) =>
          (triggers' = triggers \/ triggers' = <<>>)]_vars

\* C5: process always returns a Report; when an error escapes trigger or
\* agent handling the Report has overall_status error, an error field, and
\* in agents_executed every result produced before the error; a Report has
\* an error field exactly when its overall_status is error.
C5_ErrorReport ==
    /\ (report.error # "<no key>") <=> (report.overall_status = "error")
    /\ Returned =>
          /\ report = results
          /\ report.overall_status \in {"success", "error"}
          /\ StoppedByCondition => report.overall_status = "error"
          /\ Len(report.agents_executed) = Len(NewRecords)
          /\ \A k \in 1..Len(NewRecords) :
                report.agents_executed[k].result = NewRecords[k].result

\* an error Report that still carries the two results produced before the
\* condition of a later trigger raised
C5_Witness ==
    /\ Returned
    /\ report.overall_status = "error"
    /\ report.error # "<no key>"
    /\ Len(report.agents_executed) = 2

\* the agent _execute_agent is working on
CurrentAgent == triggers[trigger_index].agents[agent_index]

\* C6: every execute call that ends in status completed or error, the
\* unknown-type failure included, raises the agent's execution_count by 1.
C6_CountsEveryExecution ==
    [][(pc = "executing" /\ pc' = "executed") =>
          triggers'[trigger_index].agents[agent_index].execution_count
             = CurrentAgent.execution_count + 1]_vars

StatusMoves ==
    {<<"idle", "executing">>, <<"executing", "completed">>,
     <<"executing", "error">>, <<"completed", "executing">>,
     <<"error", "executing">>}

\* C7: between two loads an agent's status only moves idle -> executing,
\* executing -> completed, executing -> error, completed -> executing and
\* error -> executing; once an execute call has returned no agent is left
\* at executing.
C7_StatusMoves ==
    [][n_load' = n_load =>
          /\ Len(triggers') = Len(triggers)
          /\ \A t \in 1..Len(triggers) :
                /\ Len(triggers'[t].agents) = Len(triggers[t].agents)
                /\ \A a \in 1..Len(triggers[t].agents) :
                      LET old == triggers[t].agents[a].status
                          new == triggers'[t].agents[a].status
                      IN  /\ old # new => <<old, new>> \in StatusMoves
                          /\ pc' # "executing" => new # "executing"]_vars

\* an agent that completed in an earlier call is executing again
C7_Witness ==
    /\ pc = "executing"
    /\ CurrentAgent.status = "executing"
    /\ CurrentAgent.execution_count = 1


(***************************************************************************)
(* Properties of trigger evaluation and agent execution                    *)
(***************************************************************************)
FixedVocabulary ==
    {C_always, C_file_changed, C_test_files_modified, C_complexity_high,
     C_platform_web, C_platform_mobile}

\* the call is about to evaluate the condition of an enabled trigger
Evaluating == AtTrigger /\ triggers[trigger_index].enabled

SaysTrue(outcome) ==
    /\ outcome # ServiceFailure
    /\ StrLower(StrStrip(outcome)) = <<"t", "r", "u", "e">>

\* C15: a trigger whose condition is outside the fixed vocabulary fires if
\* and only if the call to the service succeeds and its response, trimmed
\* of whitespace and lower-cased, equals true; any other response and any
\* failure of the call leave the trigger unfired and the call goes on.
C15_CustomFiresOnTrue ==
    [][(/\ Evaluating
        /\ StrLower(triggers[trigger_index].condition) \notin FixedVocabulary)
       => IF SaysTrue(service'.outcome)
          THEN /\ fired' = Append(fired, trigger_index)
               /\ pc' = "next_agent"
          ELSE /\ fired' = fired
               /\ pc' = "next_trigger"
               /\ trigger_index' = trigger_index + 1
               /\ results' = results]_vars

\* a trigger with the condition "always " has fired on the answer " True\n"
C15_Witness ==
    /\ InCall
    /\ pc = "next_agent"
    /\ triggers[trigger_index].condition = C_custom
    /\ fired = <<trigger_index>>
    /\ service = OneCall(<<" ", "T", "r", "u", "e", "\n">>)

\* C16: executing an agent whose type is not in the AgentRegistry does not
\* raise: _execute_agent returns a result with success = false and an error
\* message naming the unknown type, the agent's status becomes error, and
\* no call is made to the text-generation service.
C16_UnknownTypeFails ==
    [][(pc = "executing" /\ CurrentAgent.agent_type \notin RegisteredTypes)
       => /\ pc' = "executed"
          /\ agent_result'.success = "false"
          /\ agent_result'.error
                = "Unknown agent type: " \o CurrentAgent.agent_type
          /\ triggers'[trigger_index].agents[agent_index].status = "error"
          /\ service'.calls = 0
          /\ results' = results]_vars

\* the execution of an agent of type custom_type has just returned
C16_Witness ==
    /\ pc = "executed"
    /\ CurrentAgent.agent_type = "custom_type"
    /\ CurrentAgent.status = "error"
    /\ agent_result.error = "Unknown agent type: custom_type"
    /\ service.calls = 0

\* C17: executing an agent whose type is none of code_analysis,
\* test_automation, documentation, deployment reaches the generic branch:
\* it calls the service once and, when that call succeeds, returns a
\* successful result carrying the fields output and agent_type.
C17_GenericBranch ==
    [][(/\ pc = "executing"
        /\ CurrentAgent.agent_type \notin
              {"code_analysis", "test_automation", "documentation",
               "deployment"})
       => /\ service'.calls = 1
          /\ service'.outcome # ServiceFailure =>
                /\ agent_result'.success = "true"
                /\ agent_result'.shape = "output"]_vars

\* the agents of the engine that have status executing
Executing ==
    {p \in {<<t, a>> : t \in 1..Len(triggers), a \in 1..3} :
        /\ p[2] <= Len(triggers[p[1]].agents)
        /\ triggers[p[1]].agents[p[2]].status = "executing"}

\* C18: at every point of a process call at most one agent of the engine
\* has status executing, and it is the agent _execute_agent is working on:
\* when a condition is evaluated, an agent starts or a result is recorded,
\* no agent is at executing.
C18_OneAtATime ==
    /\ Cardinality(Executing) <= 1
    /\ pc = "executing" => Executing = {<<trigger_index, agent_index>>}
    /\ pc # "executing" => Executing = {}

\* the agent of the third trigger is executing after both agents of the
\* first trigger have run
C18_Witness ==
    /\ pc = "executing"
    /\ trigger_index = 3
    /\ Executing = {<<3, 1>>}
    /\ triggers[1].agents[1].status = "completed"
    /\ triggers[1].agents[2].status = "error"


(***************************************************************************)
(* Properties of get_system_status and load_rules                          *)
(***************************************************************************)
\* C19: get_system_status is a pure read: it leaves the triggers with every
\* agent's status, execution_count and last_executed, the history and the
\* suggestion list unchanged, and the trigger counts and suggestions it
\* reports are the engine's current ones.
C19_StatusIsPureRead ==
    [][(pc = "idle" /\ last_call'.op = "get_system_status") =>
          /\ triggers' = triggers
          /\ execution_history' = execution_history
          /\ optimization_rules' = optimization_rules
          /\ report' = report
          /\ last_call'.status.total_triggers = Len(triggers)
          /\ last_call'.status.enabled_triggers =
                Cardinality({i \in 1..Len(triggers) : triggers[i].enabled})
          /\ last_call'.status.meta_agent_insights = optimization_rules]_vars

\* get_system_status has reported three triggers, two of them enabled, and
\* two suggestions, after agents were executed
C19_Witness ==
    /\ last_call.op = "get_system_status"
    /\ last_call.status.total_triggers = 3
    /\ last_call.status.enabled_triggers = 2
    /\ Len(last_call.status.meta_agent_insights) = 2
    /\ triggers[1].agents[1].execution_count = 1

\* C20: a successful load_rules replaces the trigger set wholesale: the
\* engine's triggers are then exactly the document's triggers in document
\* order, nothing of the set loaded before remains, every agent is fresh
\* (status idle, execution_count 0, no last_executed), and a trigger
\* without an enabled field is enabled.
C20_LoadReplaces ==
    [][(n_load' = n_load + 1 /\ ~last_call'.raised) =>
          LET doc == last_call'.document.triggers
          IN  /\ Len(triggers') = Len(doc)
              /\ \A i \in 1..Len(doc) :
                    /\ triggers'[i].name = doc[i].name
                    /\ triggers'[i].condition = doc[i].condition
                    /\ triggers'[i].enabled = (doc[i].enabled # "false")
                    /\ doc[i].enabled = "absent" => triggers'[i].enabled
                    /\ Len(triggers'[i].agents) = Len(doc[i].agents)
                    /\ \A j \in 1..Len(doc[i].agents) :
                          /\ triggers'[i].agents[j].name
                               = doc[i].agents[j].name
                          /\ triggers'[i].agents[j].agent_type
                               = doc[i].agents[j].type
                          /\ triggers'[i].agents[j].status = "idle"
                          /\ triggers'[i].agents[j].execution_count = 0
                          /\ triggers'[i].agents[j].last_executed = 0]_vars

\* the second document has been loaded over the first after agents of the
\* first were executed
C20_Witness ==
    /\ last_call.op = "load_rules"
    /\ ~last_call.raised
    /\ last_call.document = DocCustom
    /\ n_load = 2
    /\ Len(execution_history) > 0
    /\ Len(triggers) = 2
    /\ triggers[2].name = "on_tests"


(***************************************************************************)
(* Properties of the MetaAgent inside the engine                           *)
(***************************************************************************)
IsPrefix(old, new) ==
    /\ Len(old) <= Len(new)
    /\ SubSeq(new, 1, Len(old)) = old

\* this step hands one result to the MetaAgent: an agent of the running
\* call has been executed, or the application records a result of its own
RecordsOne ==
    \/ pc = "executed"
    \/ pc = "idle" /\ last_call'.op = "analyze_execution"

\* C21: the history and the suggestion list of the MetaAgent are
\* append-only across load_rules, process and status operations: every step
\* leaves the earlier contents as an unchanged prefix, the history grows by
\* exactly one record per executed agent and not otherwise, and load_rules,
\* successful or failed, changes neither list.
C21_AppendOnly ==
    [][/\ IsPrefix(execution_history, execution_history')
       /\ IsPrefix(optimization_rules, optimization_rules')
       /\ Len(execution_history') =
             Len(execution_history) + (IF RecordsOne THEN 1 ELSE 0)
       /\ Len(optimization_rules') <= Len(optimization_rules) + 1
       /\ ~RecordsOne => optimization_rules' = optimization_rules
       /\ pc = "executed" =>
             execution_history'[Len(execution_history')].agent_name
                = CurrentAgent.name
       /\ n_load' # n_load =>
             /\ execution_history' = execution_history
             /\ optimization_rules' = optimization_rules]_vars

\* a load_rules call has failed on an engine whose MetaAgent holds 13
\* records and three suggestions, the latest of them from a process call
C21_Witness ==
    /\ last_call.op = "load_rules"
    /\ last_call.raised
    /\ n_process = 1
    /\ Len(execution_history) > 12
    /\ Len(optimization_rules) > 2
    /\ execution_history[Len(execution_history)].agent_name = "tester"

\* C22: the meta_agent_insights of the Report of a successful process call
\* is a snapshot: it equals the suggestion list as it was when the call
\* returned, and stays so while the caller holds the Report, whatever later
\* process calls append to the suggestion list.
C22_InsightsSnapshot ==
    [][/\ (pc # "idle" /\ pc' = "idle"
              /\ report'.overall_status = "success") =>
             ReportInsights' = optimization_rules'
       /\ (report' = report /\ report.overall_status = "success") =>
             ReportInsights' = ReportInsights]_vars

==========================================================================
